---- MODULE Spec2Model ----
(***************************************************************************)
(* Model of play-dl's YouTube search-result parser                         *)
(* (play-dl/YouTube/utils/parser.ts) and of its SoundCloud resolver        *)
(* module (soundcloud(), stream(), stream_from_info(), check_id(),         *)
(* so_validate()) in src/unnamed/part_000.                                 *)
(*                                                                         *)
(* Three specifications share the variables:                               *)
(*   Spec       - ParseSearchResult applied to bounded search pages        *)
(*   SpecEntity - parseVideo / parseChannel / parsePlaylist applied to     *)
(*                single entries, with duration texts built from parts     *)
(*   SpecSound  - the SoundCloud operations called in any order            *)
(***************************************************************************)
EXTENDS Integers, Sequences, FiniteSets, TLC

VARIABLES
    html,       \* the html argument of ParseSearchResult (abstract page)
    options,    \* the options argument of ParseSearchResult
    entry,      \* the data argument of parseVideo/parseChannel/parsePlaylist
    out,        \* outcome of the last parser call
    soundData,  \* module-level credential of the SoundCloud module
    call,       \* the last SoundCloud operation called, with its arguments
    sres,       \* outcome of the last SoundCloud operation
    net         \* requests (with their responses) of the last SoundCloud operation

vars == <<html, options, entry, out, soundData, call, sres, net>>

\* ------------------------------------------------------------------ bounds
MaxLen == 3      \* longest item list of a search page
MaxLimit == 3    \* largest options.limit
MaxParts == 3    \* most ':'-separated parts of a duration text
MaxFormats == 2  \* longest formats list of a track

\* JavaScript's NaN, as produced by parseInt on a non-numeric string
NaN == 0 - 1

None == [st |-> "none"]

\* ------------------------------------------------------- search page model
\* One element of itemSectionRenderer.contents.
\*   renderer : which renderer key the entry carries ("none": no recognised
\*              renderer key, "null": the JSON value null)
\*   fields   : whether the nested fields the extraction routine dereferences
\*              without optional chaining are present
\*   id       : the videoId / channelId / playlistId field
\*   lengthText : [present, simpleText]: whether videoRenderer.lengthText
\*              exists, and its simpleText as a sequence of characters
RendererTypes == {"video", "channel", "playlist"}

NoLengthText == [present |-> FALSE, simpleText |-> <<>>]

Ids == {"absent", "", "id1", "id2"}

SearchEntries ==
    {[renderer |-> "none", fields |-> FALSE, id |-> "absent", lengthText |-> NoLengthText],
     [renderer |-> "null", fields |-> FALSE, id |-> "absent", lengthText |-> NoLengthText]}
    \cup {[renderer |-> r, fields |-> FALSE, id |-> "absent", lengthText |-> NoLengthText] :
             r \in RendererTypes}
    \cup {[renderer |-> r, fields |-> TRUE, id |-> i, lengthText |-> NoLengthText] :
             r \in RendererTypes, i \in {"absent", "id1"}}

SeqsUpTo(S, n) == UNION {[1..k -> S] : k \in 0..n}

\* The html argument: "" | no 'var ytInitialData = ' marker | marker followed
\* by text that is not JSON | JSON without the envelope path | a valid page.
HtmlKinds == {"empty", "noMarker", "badJson", "noPath"}

Htmls ==
    {[kind |-> k, details |-> <<>>] : k \in HtmlKinds}
    \cup {[kind |-> "valid", details |-> d] : d \in SeqsUpTo(SearchEntries, MaxLen)}

\* options: given = FALSE when the argument is omitted; type "" stands for an
\* absent or empty type, "other" for a string outside the three search
\* types; limitGiven = FALSE when options.limit is undefined.
OptionTypes == {"", "video", "channel", "playlist", "other"}

OptionsSet ==
    {[given |-> FALSE, type |-> "", limitGiven |-> FALSE, limit |-> 0]}
    \cup {[given |-> TRUE, type |-> t, limitGiven |-> FALSE, limit |-> 0] :
             t \in OptionTypes}
    \cup {[given |-> TRUE, type |-> t, limitGiven |-> TRUE, limit |-> l] :
             t \in OptionTypes, l \in 0..MaxLimit}

\* ------------------------------------------------------------ parseDuration
Digits == {"0", "1", "2", "3", "4", "5", "6", "7", "8", "9"}

DigitVal(c) ==
    CASE c = "0" -> 0 [] c = "1" -> 1 [] c = "2" -> 2 [] c = "3" -> 3
      [] c = "4" -> 4 [] c = "5" -> 5 [] c = "6" -> 6 [] c = "7" -> 7
      [] c = "8" -> 8 [] c = "9" -> 9

\* Arithmetic of JavaScript numbers restricted to naturals and NaN.
JsAdd(a, b) == IF a = NaN \/ b = NaN THEN NaN ELSE a + b

JsMul(a, b) == IF a = NaN \/ b = NaN THEN NaN ELSE a * b

\* parseInt(s): the value of the longest prefix of decimal digits, NaN when
\* that prefix is empty.
RECURSIVE ParseIntFrom(_, _, _, _)
ParseIntFrom(s, i, acc, seen) ==
    IF i > Len(s) \/ s[i] \notin Digits
    THEN IF seen THEN acc ELSE NaN
    ELSE ParseIntFrom(s, i + 1, acc * 10 + DigitVal(s[i]), TRUE)

parseInt(s) == ParseIntFrom(s, 1, 0, FALSE)

\* duration.split(':')
RECURSIVE SplitFrom(_, _, _, _)
SplitFrom(s, i, cur, acc) ==
    IF i > Len(s) THEN Append(acc, cur)
    ELSE IF s[i] = ":" THEN SplitFrom(s, i + 1, <<>>, Append(acc, cur))
    ELSE SplitFrom(s, i + 1, Append(cur, s[i]), acc)

Split(s) == SplitFrom(s, 1, <<>>, <<>>)

parseDuration(duration) ==
    IF duration = <<>> THEN 0
    ELSE LET args == Split(duration) IN
         CASE Len(args) = 3 ->
                JsAdd(JsAdd(JsMul(JsMul(parseInt(args[1]), 60), 60),
                            JsMul(parseInt(args[2]), 60)),
                      parseInt(args[3]))
           [] Len(args) = 2 ->
                JsAdd(JsMul(parseInt(args[1]), 60), parseInt(args[2]))
           [] OTHER -> parseInt(args[1])

\* --------------------------------------------------- entity field extraction
Ok(v) == [st |-> "ok", val |-> v]

Throw(e) == [st |-> "throw", err |-> e]

\* parseVideo(data)
parseVideo(data) ==
    IF data.renderer = "null" \/ data.renderer # "video"
    THEN Throw("Failed to Parse YouTube Video")
    ELSE IF ~data.fields THEN Throw("TypeError")
    ELSE LET durationText == data.lengthText IN
         Ok([cls |-> "video",
             id |-> data.id,
             duration |-> IF durationText.present
                          THEN parseDuration(durationText.simpleText) ELSE 0,
             duration_raw |-> durationText,
             live |-> IF durationText.present THEN FALSE ELSE TRUE])

\* parseChannel(data)
parseChannel(data) ==
    IF data.renderer = "null" \/ data.renderer # "channel"
    THEN Throw("Failed to Parse YouTube Channel")
    ELSE IF ~data.fields THEN Throw("TypeError")
    ELSE Ok([cls |-> "channel", id |-> data.id])

\* parsePlaylist(data)
parsePlaylist(data) ==
    IF data.renderer = "null" \/ data.renderer # "playlist"
    THEN Throw("Failed to Parse YouTube Playlist")
    ELSE IF ~data.fields THEN Throw("TypeError")
    ELSE Ok([cls |-> "playlist", id |-> data.id])

\* -------------------------------------------------------- ParseSearchResult
\* The for-loop over details, from position i on.  The outcome records the
\* results, the source position of each result (from) and the positions whose
\* entry the loop body inspected (visited).
Returned(results, from, visited) ==
    [st |-> "returned", err |-> "", results |-> results, from |-> from,
     visited |-> visited]

Threw(e, visited) ==
    [st |-> "threw", err |-> e, results |-> <<>>, from |-> <<>>,
     visited |-> visited]

\* The switch on options.type for one entry.
Dispatch(type, detail) ==
    CASE type = "video" -> parseVideo(detail)
      [] type = "channel" -> parseChannel(detail)
      [] type = "playlist" -> parsePlaylist(detail)
      [] OTHER -> Throw("Unknown search type")

\* results.push(parsed)
PushFront(results, parsed) == <<parsed>> \o results

Push(results, parsed) == Append(results, parsed)

\* if (hasLimit && results.length === options.limit) break;
LimitReachedLate(hasLimit, limit, results) == hasLimit /\ Len(results) > limit

LimitReached(hasLimit, limit, results) == hasLimit /\ Len(results) = limit

RECURSIVE Walk(_, _, _, _, _, _, _, _)
Walk(details, i, type, hasLimit, limit, results, from, visited) ==
    IF i > Len(details) THEN Returned(results, from, visited)
    ELSE IF LimitReached(hasLimit, limit, results)
    THEN Returned(results, from, visited)
    ELSE LET detail == details[i]
             seen == visited \cup {i}
         IN  IF detail.renderer = "null" THEN Threw("TypeError", seen)
             ELSE IF detail.renderer = "none"
             THEN Walk(details, i + 1, type, hasLimit, limit, results, from, seen)
             ELSE LET parsed == Dispatch(type, detail) IN
                  IF parsed.st = "throw" THEN Threw(parsed.err, seen)
                  ELSE Walk(details, i + 1, type, hasLimit, limit,
                            Push(results, parsed.val), Push(from, i), seen)

\* The type after the defaulting of lines 25-26.
EffectiveType(opts) ==
    IF ~opts.given THEN "video"
    ELSE IF opts.type = "" THEN "video" ELSE opts.type

HasLimit(opts) == opts.given /\ opts.limitGiven /\ opts.limit > 0

ParseSearchResult(h, opts) ==
    CASE h.kind = "empty" -> Threw("Can't parse Search result without data", {})
      [] h.kind = "noMarker" -> Threw("SyntaxError", {})
      [] h.kind = "badJson" -> Threw("SyntaxError", {})
      [] h.kind = "noPath" -> Threw("TypeError", {})
      [] OTHER -> Walk(h.details, 1, EffectiveType(opts), HasLimit(opts),
                       opts.limit, <<>>, <<>>, {})

\* ------------------------------------------------- specification: search
NoEntry == [renderer |-> "none", fields |-> FALSE, id |-> "absent",
            lengthText |-> NoLengthText]

NoCall == [op |-> "none"]

SoundIdle ==
    /\ soundData = "absent"
    /\ call = NoCall
    /\ sres = None
    /\ net = <<>>

Init ==
    /\ html \in Htmls
    /\ options \in OptionsSet
    /\ entry = NoEntry
    /\ out = None
    /\ SoundIdle

\* ParseSearchResult(html, options)
CallParseSearchResult ==
    /\ out = None
    /\ out' = ParseSearchResult(html, options)
    /\ UNCHANGED <<html, options, entry, soundData, call, sres, net>>

Next == CallParseSearchResult

Spec == Init /\ [][Next]_vars

\* ------------------------------------------- specification: single entries
\* Duration texts: up to MaxParts parts joined by ':'.
DurParts == {<<>>, <<"1">>, <<"0", "2">>, <<"0", "3">>, <<"4", "5">>, <<"x">>}

RECURSIVE Join(_)
Join(parts) ==
    IF Len(parts) = 1 THEN parts[1]
    ELSE parts[1] \o <<":">> \o Join(Tail(parts))

PartSeqs == UNION {[1..k -> DurParts] : k \in 1..MaxParts}

DurationTexts == {Join(ps) : ps \in PartSeqs}

Entries ==
    {[renderer |-> r, fields |-> f, id |-> i, lengthText |-> NoLengthText] :
        r \in RendererTypes \cup {"none", "null"}, f \in BOOLEAN, i \in Ids}
    \cup {[renderer |-> "video", fields |-> TRUE, id |-> i,
           lengthText |-> [present |-> TRUE, simpleText |-> t]] :
             i \in {"absent", "id1"}, t \in DurationTexts}

InitEntity ==
    /\ html = [kind |-> "empty", details |-> <<>>]
    /\ options = [given |-> FALSE, type |-> "", limitGiven |-> FALSE, limit |-> 0]
    /\ entry \in Entries
    /\ out = None
    /\ SoundIdle

CallParseVideo ==
    /\ out = None
    /\ out' = parseVideo(entry)
    /\ UNCHANGED <<html, options, entry, soundData, call, sres, net>>

CallParseChannel ==
    /\ out = None
    /\ out' = parseChannel(entry)
    /\ UNCHANGED <<html, options, entry, soundData, call, sres, net>>

CallParsePlaylist ==
    /\ out = None
    /\ out' = parsePlaylist(entry)
    /\ UNCHANGED <<html, options, entry, soundData, call, sres, net>>

NextEntity == CallParseVideo \/ CallParseChannel \/ CallParsePlaylist

SpecEntity == InitEntity /\ [][NextEntity]_vars

\* ------------------------------------------------- specification: SoundCloud
\* URLs as sequences of tokens: scheme, subdomain, host, path.
Schemes == {<<>>, <<"https", "://">>, <<"ftp", "://">>}

Subdomains == {<<>>, <<"m", ".">>, <<"api", ".">>}

Hosts == {<<"soundcloud.com">>, <<"snd.sc">>, <<"example.com">>}

Paths == {<<>>, <<"/", "x">>}

Urls == {sc \o sb \o h \o pa :
            sc \in Schemes, sb \in Subdomains, h \in Hosts, pa \in Paths}

\* const pattern = /^(?:(https?):\/\/)?(?:(?:www|m)\.)?(soundcloud\.com|snd\.sc)\/(.*)$/
\* matched token by token; Drop removes a matched optional prefix.
Drop(s, n) == SubSeq(s, n + 1, Len(s))

StripScheme(s) ==
    IF Len(s) >= 2 /\ s[1] \in {"http", "https"} /\ s[2] = "://"
    THEN Drop(s, 2) ELSE s

StripSubdomain(s) ==
    IF Len(s) >= 2 /\ s[1] \in {"www", "m"} /\ s[2] = "."
    THEN Drop(s, 2) ELSE s

MatchesPattern(url) ==
    LET rest == StripSubdomain(StripScheme(url)) IN
    /\ Len(rest) >= 2
    /\ rest[1] \in {"soundcloud.com", "snd.sc"}
    /\ rest[2] = "/"

\* Tracks: a formats list of at most MaxFormats formats.
MimeTypes == {"audio/ogg", "audio/mpeg"}

FormatLists == SeqsUpTo(MimeTypes, MaxFormats)

\* Responses of the request() collaborator: a rejection, a body that is not
\* JSON, or a JSON body.
NetError == [ok |-> FALSE, json |-> FALSE, kind |-> "", formats |-> <<>>]

NotJson == [ok |-> TRUE, json |-> FALSE, kind |-> "", formats |-> <<>>]

ResolveResponses ==
    {NetError, NotJson}
    \cup {[ok |-> TRUE, json |-> TRUE, kind |-> k, formats |-> <<>>] :
             k \in {"playlist", "user"}}
    \cup {[ok |-> TRUE, json |-> TRUE, kind |-> "track", formats |-> f] :
             f \in FormatLists}

PlainResponses ==
    {NetError, NotJson, [ok |-> TRUE, json |-> TRUE, kind |-> "", formats |-> <<>>]}

\* request(url): the request joins the log of the running operation.
RequestTwice(log, to, resp) ==
    log \o <<[to |-> to, resp |-> resp], [to |-> to, resp |-> resp]>>

Request(log, to, resp) == Append(log, [to |-> to, resp |-> resp])

\* soundData.client_id: a TypeError when soundData is undefined.
ClientIdUnchecked(sd) == Ok(sd)

ClientId(sd) == IF sd = "absent" THEN Throw("TypeError") ELSE Ok(sd)

\* json_data.kind !== 'track' && json_data.kind !== 'playlist' (negated)
AnyKindInScope(kind) == TRUE

KindInScope(kind) == kind = "track" \/ kind = "playlist"

Done(res, log) == [res |-> res, net |-> log]

Value(v) == [st |-> "returned", val |-> v, err |-> ""]

Fail(e) == [st |-> "threw", val |-> [cls |-> "none"], err |-> e]

\* soundcloud(url)
soundcloud(sd, url, resp) ==
    IF sd = "absent" THEN Done(Fail("SoundCloud Data is missing"), <<>>)
    ELSE IF ~MatchesPattern(url)
    THEN Done(Fail("This is not a SoundCloud URL"), <<>>)
    ELSE LET log == Request(<<>>, "resolve", resp) IN
         IF ~resp.ok THEN Done(Fail("NetworkError"), log)
         ELSE IF ~resp.json THEN Done(Fail("SyntaxError"), log)
         ELSE IF ~KindInScope(resp.kind)
         THEN Done(Fail("This url is out of scope for play-dl."), log)
         ELSE IF resp.kind = "track"
         THEN Done(Value([cls |-> "SoundCloudTrack", formats |-> resp.formats]), log)
         ELSE Done(Value([cls |-> "SoundCloudPlaylist", formats |-> <<>>]), log)

\* Lines 41-46 and 50-55: the format request for a track in hand.
FetchStream(sd, data, log, resp) ==
    IF data.formats = <<>> THEN Done(Fail("TypeError"), log)
    ELSE LET cid == ClientId(sd) IN
         IF cid.st = "throw" THEN Done(Fail(cid.err), log)
         ELSE LET log2 == Request(log, "format", resp) IN
              IF ~resp.ok THEN Done(Fail("NetworkError"), log2)
              ELSE IF ~resp.json THEN Done(Fail("SyntaxError"), log2)
              ELSE Done(Value([cls |-> "Stream",
                               type |-> IF data.formats[Len(data.formats)] = "audio/ogg"
                                        THEN "OggOpus" ELSE "Arbitrary"]), log2)

\* stream(url)
stream(sd, url, resp, resp2) ==
    LET r == soundcloud(sd, url, resp) IN
    IF r.res.st = "threw" THEN r
    ELSE IF r.res.val.cls = "SoundCloudPlaylist"
    THEN Done(Fail("Streams can't be created from Playlist url"), r.net)
    ELSE FetchStream(sd, r.res.val, r.net, resp2)

\* stream_from_info(data)
stream_from_info(sd, data, resp) == FetchStream(sd, data, <<>>, resp)

\* check_id(id)
check_id(id, resp) ==
    LET log == Request(<<>>, "search", resp) IN
    IF ~resp.ok THEN Done(Value([cls |-> "boolean", b |-> FALSE]), log)
    ELSE Done(Value([cls |-> "boolean", b |-> TRUE]), log)

\* so_validate(url)
so_validate(sd, url, resp) ==
    LET cid == ClientId(sd) IN
    IF cid.st = "throw" THEN Done(Fail(cid.err), <<>>)
    ELSE LET log == Request(<<>>, "resolve", resp) IN
         IF ~resp.ok THEN Done(Fail("NetworkError"), log)
         ELSE IF ~resp.json THEN Done(Fail("SyntaxError"), log)
         ELSE IF resp.kind = "track" THEN Done(Value([cls |-> "kind", k |-> "track"]), log)
         ELSE IF resp.kind = "playlist"
         THEN Done(Value([cls |-> "kind", k |-> "playlist"]), log)
         ELSE Done(Value([cls |-> "kind", k |-> "false"]), log)

\* Module load (lines 6-9): soundData is set iff .data/soundcloud.data exists.
InitSound ==
    /\ html = [kind |-> "empty", details |-> <<>>]
    /\ options = [given |-> FALSE, type |-> "", limitGiven |-> FALSE, limit |-> 0]
    /\ entry = NoEntry
    /\ out = None
    /\ soundData \in {"absent", "cid"}
    /\ call = NoCall
    /\ sres = None
    /\ net = <<>>

Finish(c, r) ==
    /\ call' = c
    /\ sres' = r.res
    /\ net' = r.net
    /\ UNCHANGED <<html, options, entry, out, soundData>>

CallSoundcloud ==
    \E url \in Urls, resp \in ResolveResponses :
        Finish([op |-> "soundcloud", url |-> url], soundcloud(soundData, url, resp))

CallStream ==
    \E url \in Urls, resp \in ResolveResponses, resp2 \in PlainResponses :
        Finish([op |-> "stream", url |-> url],
               stream(soundData, url, resp, resp2))

CallStreamFromInfo ==
    \E f \in FormatLists, resp \in PlainResponses :
        Finish([op |-> "stream_from_info", formats |-> f],
               stream_from_info(soundData,
                                [cls |-> "SoundCloudTrack", formats |-> f], resp))

CallCheckId ==
    \E id \in {"cid", "revoked"}, resp \in PlainResponses :
        Finish([op |-> "check_id", id |-> id], check_id(id, resp))

CallSoValidate ==
    \E url \in Urls, resp \in ResolveResponses :
        Finish([op |-> "so_validate", url |-> url], so_validate(soundData, url, resp))

NextSound ==
    \/ CallSoundcloud
    \/ CallStream
    \/ CallStreamFromInfo
    \/ CallCheckId
    \/ CallSoValidate

SpecSound == InitSound /\ [][NextSound]_vars

\* ------------------------------------------------------ claims: search walk
ValidCall == out # None /\ html.kind = "valid"

ReqType == EffectiveType(options)

\* An entry on which the walk, when it inspects it, ends the call with an
\* exception: null, or a renderer entry that the extraction routine of the
\* requested type rejects.
Aborts(e, t) ==
    \/ e.renderer = "null"
    \/ /\ e.renderer \in RendererTypes
       /\ (t \notin RendererTypes \/ e.renderer # t \/ ~e.fields)

FirstAbort(details, t) ==
    IF \E i \in 1..Len(details) : Aborts(details[i], t)
    THEN CHOOSE i \in 1..Len(details) :
            /\ Aborts(details[i], t)
            /\ \A j \in 1..(i - 1) : ~Aborts(details[j], t)
    ELSE Len(details) + 1

\* Entries of the requested type that precede every aborting entry.
MatchingBeforeAbort(details, t) ==
    Cardinality({i \in 1..(FirstAbort(details, t) - 1) : details[i].renderer = t})

\* C1: with limit k > 0 a returned list has at most k elements, and the call
\* returns exactly k elements iff at least k entries of the requested type
\* precede every entry on which the call aborts.
C1_LimitBound ==
    (ValidCall /\ HasLimit(options)) =>
        /\ out.st = "returned" => Len(out.results) <= options.limit
        /\ (out.st = "returned" /\ Len(out.results) = options.limit)
              <=> MatchingBeforeAbort(html.details, ReqType) >= options.limit

\* The limit cut the walk short: more matching entries existed than returned.
C1_Witness ==
    /\ ValidCall /\ HasLimit(options)
    /\ out.st = "returned"
    /\ Len(out.results) = options.limit
    /\ Cardinality({i \in 1..Len(html.details) :
                       html.details[i].renderer = ReqType}) > options.limit

WellFormedOrPlain(e) ==
    e.renderer = "none" \/ (e.renderer \in RendererTypes /\ e.fields)

\* C2: without a limit, on a page whose entries are all well formed, the call
\* returns as many results as there are entries carrying the renderer of the
\* requested type, also when the page mixes renderer types.
C2_UnlimitedCount ==
    (/\ ValidCall
     /\ ReqType \in RendererTypes
     /\ ~HasLimit(options)
     /\ \A i \in 1..Len(html.details) : WellFormedOrPlain(html.details[i]))
    => /\ out.st = "returned"
       /\ Len(out.results) =
             Cardinality({i \in 1..Len(html.details) :
                             html.details[i].renderer = ReqType})

\* C3: on a page whose entries carry either no renderer or the renderer of
\* the requested type, an entry on which field extraction fails is skipped:
\* the call returns, with one result per well-formed entry of that type.
C3_MalformedSkipped ==
    (/\ ValidCall
     /\ ReqType \in RendererTypes
     /\ ~HasLimit(options)
     /\ \A i \in 1..Len(html.details) :
           html.details[i].renderer \in {"none", ReqType})
    => /\ out.st = "returned"
       /\ Len(out.results) =
             Cardinality({i \in 1..Len(html.details) :
                             /\ html.details[i].renderer = ReqType
                             /\ html.details[i].fields})

\* C4: the results are the parsed entries of strictly increasing source
\* positions, and once limit results are collected no later entry is
\* inspected: the outcome is that of the page cut after the last result.
C4_SourceOrderAndEarlyStop ==
    (ValidCall /\ out.st = "returned") =>
        /\ Len(out.from) = Len(out.results)
        /\ \A j \in 1..Len(out.from) :
              /\ out.from[j] \in 1..Len(html.details)
              /\ Dispatch(ReqType, html.details[out.from[j]]) = Ok(out.results[j])
        /\ \A j \in 1..(Len(out.from) - 1) : out.from[j] < out.from[j + 1]
        /\ (HasLimit(options) /\ Len(out.results) = options.limit) =>
              LET last == out.from[options.limit] IN
              /\ out.visited = 1..last
              /\ ParseSearchResult(
                    [kind |-> "valid", details |-> SubSeq(html.details, 1, last)],
                    options) = out

\* The limit was reached before a later, aborting entry.
C4_Witness ==
    /\ ValidCall /\ out.st = "returned"
    /\ HasLimit(options) /\ Len(out.results) = options.limit
    /\ options.limit >= 2
    /\ \E i \in 1..Len(html.details) :
          /\ i > out.from[options.limit]
          /\ Aborts(html.details[i], ReqType)

\* C5: with a type outside {video, playlist, channel} every call on a valid
\* page (without null entries) fails with 'Unknown search type'.
C5_UnknownTypeFails ==
    (/\ ValidCall
     /\ options.given /\ options.type = "other"
     /\ \A i \in 1..Len(html.details) : html.details[i].renderer # "null")
    => (out.st = "threw" /\ out.err = "Unknown search type")

\* --------------------------------------------------- claims: single entries
\* C9: every constructed entity has a non-empty id; an entry whose id field
\* is absent or empty never yields an entity.
C9_EntityHasId ==
    (out # None /\ out.st = "ok") => out.val.id \notin {"absent", ""}

\* The number a part of digits stands for.
PartVal(p) ==
    CASE p = <<"1">> -> 1
      [] p = <<"0", "2">> -> 2
      [] p = <<"0", "3">> -> 3
      [] p = <<"4", "5">> -> 45

NumParts == DurParts \ {<<>>, <<"x">>}

VideoParsed == out # None /\ out.st = "ok" /\ out.val.cls = "video"

\* C10: H:MM:SS, MM:SS and SS texts convert to h*3600 + m*60 + s, m*60 + s
\* and s; empty or absent duration text gives duration 0 and live; non-empty
\* duration text gives not live.
C10_DurationAndLive ==
    VideoParsed =>
        LET t == entry.lengthText.simpleText IN
        /\ \A h \in NumParts, m \in NumParts, x \in NumParts :
              /\ t = Join(<<h, m, x>>) =>
                    out.val.duration = PartVal(h) * 3600 + PartVal(m) * 60 + PartVal(x)
              /\ t = Join(<<m, x>>) =>
                    out.val.duration = PartVal(m) * 60 + PartVal(x)
              /\ t = Join(<<x>>) => out.val.duration = PartVal(x)
        /\ (~entry.lengthText.present \/ t = <<>>) =>
              (out.val.duration = 0 /\ out.val.live)
        /\ (entry.lengthText.present /\ t # <<>>) => ~out.val.live

\* ------------------------------------------------------- claims: SoundCloud
Credentialed == {"soundcloud", "stream", "stream_from_info", "so_validate"}

\* C6: without a credential every credentialed operation throws and issues no
\* request, and the credential never changes after module load.
C6_FailClosed ==
    /\ []((soundData = "absent" /\ call.op \in Credentialed) =>
             (sres.st = "threw" /\ net = <<>>))
    /\ [][soundData' = soundData]_vars

\* so_validate and stream_from_info were called without a credential.
C6_Witness ==
    /\ soundData = "absent"
    /\ call.op \in {"so_validate", "stream_from_info"}
    /\ sres.st = "threw"

\* URLs of the platform's shape: optional http(s) scheme, optional www or m
\* subdomain, host soundcloud.com or snd.sc, then a path.
ShapeUrls ==
    {sc \o sb \o h \o <<"/", "x">> :
        sc \in {<<>>, <<"http", "://">>, <<"https", "://">>},
        sb \in {<<>>, <<"www", ".">>, <<"m", ".">>},
        h \in {<<"soundcloud.com">>, <<"snd.sc">>}}

\* C7: with a credential, soundcloud() on a URL of the platform's shape and a
\* successful JSON response yields a Track for kind 'track', a Playlist for
\* kind 'playlist' and 'out of scope' without an entity for any other kind;
\* on any other URL it throws before any request.
C7_ResolveDiscriminates ==
    (soundData # "absent" /\ call.op = "soundcloud") =>
        /\ call.url \notin ShapeUrls =>
              /\ sres.st = "threw" /\ sres.err = "This is not a SoundCloud URL"
              /\ net = <<>>
        /\ call.url \in ShapeUrls =>
              /\ Len(net) = 1 /\ net[1].to = "resolve"
              /\ (net[1].resp.ok /\ net[1].resp.json) =>
                    CASE net[1].resp.kind = "track" ->
                            sres.st = "returned" /\ sres.val.cls = "SoundCloudTrack"
                      [] net[1].resp.kind = "playlist" ->
                            sres.st = "returned" /\ sres.val.cls = "SoundCloudPlaylist"
                      [] OTHER ->
                            /\ sres.st = "threw"
                            /\ sres.err = "This url is out of scope for play-dl."
                            /\ sres.val.cls = "none"

\* A 'user' response was rejected as out of scope.
C7_Witness ==
    /\ soundData # "absent" /\ call.op = "soundcloud"
    /\ Len(net) = 1 /\ net[1].resp.kind = "user"
    /\ sres.st = "threw"

\* C8 as stated: every operation issues at most one request per call.
C8_AtMostOneRequest == Len(net) <= 1

\* C8 amended: every operation issues at most one request per call, except
\* stream(url), which issues at most two: the resolve request, then the
\* format request.
C8_AtMostOneExceptStream ==
    /\ call.op # "stream" => Len(net) <= 1
    /\ call.op = "stream" =>
          /\ Len(net) <= 2
          /\ Len(net) = 2 => (net[1].to = "resolve" /\ net[2].to = "format")

\* A successful stream(url) on a track URL: two requests.
C8_Witness ==
    /\ call.op = "stream" /\ sres.st = "returned"
    /\ Len(net) = 2

====
